---- MODULE Spec2Model ----
(***************************************************************************)
(* Model of opac_ssm_api/client.py: the module-level import of opac_pb2,   *)
(* Client.__init__ and the nine operations of Client, run against an SSM   *)
(* server that holds a set of assets and a set of buckets and that other   *)
(* clients may remove entities from.                                       *)
(***************************************************************************)
EXTENDS Integers, Sequences, FiniteSets, TLC

VARIABLES
    assets,       \* server side: ids of the assets that exist
    buckets,      \* server side: names of the buckets that exist
    pc,           \* "idle", or "probed" between an existence probe and the rest
    op,           \* the operation called last: [name |-> ..., args |-> ...]
    probe,        \* "none", or the answer of the existence probe of op
    calls,        \* the remote calls op has issued so far, in order
    built,        \* the keyword arguments op handed to opac_pb2.Asset, or NoKwargs
    result,       \* how op ended: [kind |-> "pending" | "return" | "raise", ...]
    stale,        \* the last mutating call of op named an entity the server lacked
    gone,         \* the entity op probed was removed by another client since
    onDisk,       \* a compiled opac_pb2 module is on the import path
    diskVersion,  \* which compilation of the schema is on disk
    opac_pb2,     \* the compilation loaded in the process; 0 before the import
    imported,     \* "no", "yes", or "failed" for the module-level import
    httpLog,      \* the URLs of the schema fetches, newest last (bounded)
    ctor          \* the last Client(...) call: its arguments and its trace

opVars == <<assets, buckets, pc, op, probe, calls, built, result, stale, gone>>
pbVars == <<onDisk, diskVersion, opac_pb2, imported, httpLog, ctor>>
vars == <<assets, buckets, pc, op, probe, calls, built, result, stale, gone,
          onDisk, diskVersion, opac_pb2, imported, httpLog, ctor>>

----------------------------------------------------------------------------
(* Bounds of the model *)

\* number of asset ids the server can assign
NumAssetIds == 1
\* number of schema compilations a behaviour may perform
MaxCompiles == 3
\* number of schema fetches kept in httpLog
MaxLog == 2

----------------------------------------------------------------------------
(* Python values: every value carries its type, its text and its items *)

PyNone == [type |-> "NoneType", str |-> "", items |-> <<>>]
PyStr(s) == [type |-> "str", str |-> s, items |-> <<>>]
PyBytes(s) == [type |-> "bytes", str |-> s, items |-> <<>>]
PyInt(s) == [type |-> "int", str |-> s, items |-> <<>>]
PyDict(kv) == [type |-> "dict", str |-> "", items |-> kv]
PyList(kv) == [type |-> "list", str |-> "", items |-> kv]
\* an open file object: it has a read() that returns its content
PyFile(content) == [type |-> "file", str |-> content, items |-> <<>>]

\* Python truth value, as `not x` / `if x` compute it
Truthy(v) ==
    CASE v.type = "NoneType" -> FALSE
      [] v.type \in {"str", "bytes"} -> v.str # ""
      [] v.type = "int" -> v.str # "0"
      [] v.type \in {"dict", "list"} -> v.items # <<>>
      [] OTHER -> TRUE

\* isinstance(v, six.string_types)
IsString(v) == v.type = "str"

\* isinstance(v, dict)
IsDict(v) == v.type = "dict"

\* hasattr(v, 'read')
HasRead(v) == v.type = "file"

RECURSIVE JsonItems(_)
JsonItems(kv) ==
    IF kv = <<>> THEN ""
    ELSE "\"" \o kv[1][1] \o "\": " \o ToString(kv[1][2])
         \o (IF Len(kv) > 1 THEN ", " ELSE "") \o JsonItems(Tail(kv))

\* json.dumps of a dict of string keys and integer values
JsonDumps(d) == "{" \o JsonItems(d.items) \o "}"

----------------------------------------------------------------------------
(* The local file system and the server's id space *)

\* the paths for which os.path.isfile and os.access(R_OK) both hold
ReadablePaths == {"/tmp/a.pdf"}
FileContent(path) == "pdf-bytes"
\* os.path.basename
Basename(path) == IF path = "/tmp/a.pdf" THEN "a.pdf" ELSE path

AssetIds == {"uuid" \o ToString(i) : i \in 1..NumAssetIds}
BucketNames == {"photos", "photos2"}

----------------------------------------------------------------------------
(* Argument values the caller may pass *)

IdArgs == {PyStr(i) : i \in AssetIds} \cup {PyInt("42")}
NameArgs == {PyStr(n) : n \in BucketNames} \cup {PyInt("42")}
MetadataArgs ==
    { PyNone, PyStr(""),
      PyDict(<<>>), PyDict(<< <<"a", 1>>, <<"b", 2>> >>),
      PyList(<<>>), PyList(<< <<"", 1>> >>) }
PfileArgs == {PyFile("stream-bytes"), PyStr("/tmp/a.pdf"), PyStr("/nonexistent")}
FilenameArgs == {PyStr(""), PyStr("n.txt")}
FiletypeArgs == {PyNone, PyStr("pdf")}
BucketArgs == {PyNone, PyStr("photos")}

NoKwargs == [none |-> PyNone]
NoOp == [name |-> "none", args |-> NoKwargs, defaulted |-> {}]
Op(name, args) == [name |-> name, args |-> args, defaulted |-> {}]
Pending == [kind |-> "pending", exc |-> "", val |-> PyNone]
Return(v) == [kind |-> "return", exc |-> "", val |-> v]
Raise(e) == [kind |-> "raise", exc |-> e, val |-> PyNone]

RemoteCall(stub, method, msg) == [stub |-> stub, method |-> method, msg |-> msg]

----------------------------------------------------------------------------
(* How an operation ends, and how it pauses between two round-trips *)

Finish(o, cs, b, r, st) ==
    /\ pc' = "idle"
    /\ op' = o
    /\ calls' = cs
    /\ built' = b
    /\ result' = r
    /\ stale' = st

\* a call that fails validation before its first round-trip
Reject(o, e) ==
    /\ Finish(o, <<>>, NoKwargs, Raise(e), FALSE)
    /\ probe' = "none"
    /\ gone' = FALSE
    /\ UNCHANGED <<assets, buckets>>

\* the branch `if self.stub.exists_...(...)` takes on the probe's answer
\* (variants: a branch that ignores the answer, a branch that inverts it)
ProceedsOnMutant(answer) == TRUE
ProceedsOnInverted(answer) == ~answer
ProceedsOn(answer) == answer

\* the existence probe was issued and answered; the operation goes on or ends
Probed(o, call, answer) ==
    /\ op' = o
    /\ calls' = <<call>>
    /\ probe' = IF answer THEN "true" ELSE "false"
    /\ built' = NoKwargs
    /\ stale' = FALSE
    /\ gone' = FALSE
    /\ pc' = IF ProceedsOn(answer) THEN "probed" ELSE "idle"
    /\ result' = IF ProceedsOn(answer) THEN Pending ELSE Return(PyNone)
    /\ UNCHANGED <<assets, buckets>>

----------------------------------------------------------------------------
(* add_asset *)

\* the default of add_asset's bucket_name parameter
\* (variant: no sentinel, an empty default)
AddAssetDefaultBucketMutant == ""
AddAssetDefaultBucket == "UNKNOW"

\* lines 64-69: the metadata the message will encode, or the error raised
AddAssetMetadata(metadata) ==
    IF ~Truthy(metadata) THEN [exc |-> "", value |-> PyDict(<<>>)]
    ELSE IF ~IsDict(metadata) THEN [exc |-> "ValueError", value |-> PyNone]
    ELSE [exc |-> "", value |-> metadata]

\* lines 71-87: the content and the filename, or the error raised
AddAssetContent(pfile, filename) ==
    IF HasRead(pfile)
    THEN IF ~Truthy(filename)
         THEN [exc |-> "ValueError", filename |-> PyNone, file |-> PyNone]
         ELSE [exc |-> "", filename |-> filename, file |-> PyBytes(pfile.str)]
    ELSE IF pfile.str \in ReadablePaths
         THEN [exc |-> "", filename |-> PyStr(Basename(pfile.str)),
               file |-> PyBytes(FileContent(pfile.str))]
         ELSE [exc |-> "IOError", filename |-> PyNone, file |-> PyNone]

\* opac_pb2.Asset(**kwargs): the message type checks its fields, which are a
\* bytes field (file) and string fields (the others)
AssetAccepts(kwargs) ==
    \A f \in DOMAIN kwargs :
        IF f = "file" THEN kwargs[f].type = "bytes" ELSE kwargs[f].type = "str"

AddAsset(pfile, filename, filetype, metadata, given, bucket) ==
    /\ pc = "idle"
    /\ LET bucket_name == IF given THEN bucket ELSE PyStr(AddAssetDefaultBucket)
           o == [name |-> "add_asset",
                 args |-> [pfile |-> pfile, filename |-> filename,
                           filetype |-> filetype, metadata |-> metadata,
                           bucket_name |-> bucket_name],
                 defaulted |-> IF given THEN {} ELSE {"bucket_name"}]
           md == AddAssetMetadata(metadata)
           src == AddAssetContent(pfile, filename)
           kwargs == [file |-> src.file, filename |-> src.filename,
                      type |-> filetype,
                      metadata |-> PyStr(JsonDumps(md.value)),
                      bucket |-> bucket_name]
       IN  IF md.exc # "" THEN Reject(o, md.exc)
           ELSE IF src.exc # "" THEN Reject(o, src.exc)
           ELSE /\ AssetAccepts(kwargs)
                /\ \E new \in AssetIds \ assets :
                      /\ assets' = assets \cup {new}
                      /\ Finish(o, <<RemoteCall("stubAsset", "add_asset", kwargs)>>,
                                kwargs, Return(PyStr(new)), FALSE)
                /\ probe' = "none"
                /\ gone' = FALSE
                /\ UNCHANGED buckets
    /\ UNCHANGED pbVars

----------------------------------------------------------------------------
(* get_asset, get_asset_info, get_task_state *)

\* lines 111-116, 137-142, 159-164: the id check, then one round-trip
Getter(name, id) ==
    /\ pc = "idle"
    /\ IF ~IsString(id) THEN Reject(Op(name, [id |-> id]), "ValueError")
       ELSE /\ Finish(Op(name, [id |-> id]),
                      <<RemoteCall("stubAsset", name, [id |-> id])>>,
                      NoKwargs, Return(PyStr(name \o "-response")), FALSE)
            /\ probe' = "none"
            /\ gone' = FALSE
            /\ UNCHANGED <<assets, buckets>>
    /\ UNCHANGED pbVars

GetAsset(id) == Getter("get_asset", id)
GetAssetInfo(id) == Getter("get_asset_info", id)
GetTaskState(id) == Getter("get_task_state", id)

----------------------------------------------------------------------------
(* update_asset *)

\* lines 193-200: the metadata entry of update_params, or the error raised
UpdateAssetMetadata(metadata) ==
    IF ~Truthy(metadata) THEN [exc |-> "", value |-> PyDict(<<>>)]
    ELSE IF ~IsDict(metadata) THEN [exc |-> "ValueError", value |-> PyNone]
    ELSE [exc |-> "", value |-> PyStr(JsonDumps(metadata))]

\* lines 202-222: the file and filename entries of update_params, if any
UpdateAssetContent(pfile, filename) ==
    IF pfile = PyNone THEN [exc |-> "", entries |-> << >>]
    ELSE IF HasRead(pfile)
    THEN IF ~Truthy(filename)
         THEN [exc |-> "IOError", entries |-> << >>]
         ELSE [exc |-> "",
               entries |-> [file |-> PyBytes(pfile.str), filename |-> filename]]
    ELSE IF pfile.str \in ReadablePaths
         THEN [exc |-> "",
               entries |-> [file |-> PyBytes(FileContent(pfile.str)),
                            filename |-> PyStr(Basename(pfile.str))]]
         ELSE [exc |-> "IOError", entries |-> << >>]

\* lines 189-228: update_params as the code fills it
UpdateParams(md, src, filetype, bucket_name) ==
    [metadata |-> md.value] @@ src.entries
    @@ (IF Truthy(filetype) THEN [type |-> filetype] ELSE << >>)
    @@ (IF Truthy(bucket_name) THEN [bucket |-> bucket_name] ELSE << >>)

\* lines 186-191 and 233-235: the uuid check, the probe, the branch on it
UpdateAssetProbe(uuid, pfile, filename, filetype, metadata, bucket_name) ==
    /\ pc = "idle"
    /\ LET o == Op("update_asset",
                   [uuid |-> uuid, pfile |-> pfile, filename |-> filename,
                    filetype |-> filetype, metadata |-> metadata,
                    bucket_name |-> bucket_name])
       IN  IF ~IsString(uuid) THEN Reject(o, "ValueError")
           ELSE Probed(o, RemoteCall("stubAsset", "exists_asset", [id |-> uuid]),
                       uuid.str \in assets)
    /\ UNCHANGED pbVars

\* lines 193-232: what update_asset does once the probe answered true
UpdateAssetRest ==
    /\ pc = "probed"
    /\ op.name = "update_asset"
    /\ LET a == op.args
           md == UpdateAssetMetadata(a.metadata)
           src == UpdateAssetContent(a.pfile, a.filename)
           kwargs == UpdateParams(md, src, a.filetype, a.bucket_name)
       IN  IF md.exc # "" THEN Finish(op, calls, NoKwargs, Raise(md.exc), FALSE)
           ELSE IF src.exc # "" THEN Finish(op, calls, NoKwargs, Raise(src.exc), FALSE)
           ELSE IF ~AssetAccepts(kwargs)
                THEN Finish(op, calls, kwargs, Raise("TypeError"), FALSE)
           ELSE Finish(op,
                       Append(calls, RemoteCall("stubAsset", "update_asset", kwargs)),
                       kwargs, Return(PyStr("updated-id")),
                       a.uuid.str \notin assets)
    /\ UNCHANGED <<assets, buckets, probe, gone>>
    /\ UNCHANGED pbVars

----------------------------------------------------------------------------
(* remove_asset *)

\* lines 247-250: the id check, the probe, the branch on it
RemoveAssetProbe(id) ==
    /\ pc = "idle"
    /\ IF ~IsString(id) THEN Reject(Op("remove_asset", [id |-> id]), "ValueError")
       ELSE Probed(Op("remove_asset", [id |-> id]),
                   RemoteCall("stubAsset", "exists_asset", [id |-> id]),
                   id.str \in assets)
    /\ UNCHANGED pbVars

\* line 251: the removal, once the probe answered true
RemoveAssetRest ==
    /\ pc = "probed"
    /\ op.name = "remove_asset"
    /\ Finish(op,
              Append(calls, RemoteCall("stubAsset", "remove_asset", [id |-> op.args.id])),
              NoKwargs, Return(PyStr("removed")), op.args.id.str \notin assets)
    /\ assets' = assets \ {op.args.id.str}
    /\ UNCHANGED <<buckets, probe, gone>>
    /\ UNCHANGED pbVars

----------------------------------------------------------------------------
(* add_bucket, update_bucket, remove_bucket *)

\* lines 265-270
AddBucket(name) ==
    /\ pc = "idle"
    /\ IF ~IsString(name) THEN Reject(Op("add_bucket", [name |-> name]), "ValueError")
       ELSE /\ Finish(Op("add_bucket", [name |-> name]),
                      <<RemoteCall("stubBucket", "add_bucket", [name |-> name])>>,
                      NoKwargs, Return(PyStr("bucket-id")), FALSE)
            /\ buckets' = buckets \cup ({name.str} \cap BucketNames)
            /\ probe' = "none"
            /\ gone' = FALSE
            /\ UNCHANGED assets
    /\ UNCHANGED pbVars

\* lines 285-293: both names must be strings
\* (variant: new_name left unchecked)
UpdateBucketArgsOkMutant(name, new_name) == IsString(name)
UpdateBucketArgsOk(name, new_name) == IsString(name) /\ IsString(new_name)

\* lines 285-296
UpdateBucket(name, new_name) ==
    /\ pc = "idle"
    /\ LET o == Op("update_bucket", [name |-> name, new_name |-> new_name])
       IN  IF ~UpdateBucketArgsOk(name, new_name) THEN Reject(o, "ValueError")
           ELSE /\ Finish(o, <<RemoteCall("stubBucket", "add_update",
                                          [name |-> name, new_name |-> new_name])>>,
                          NoKwargs, Return(PyStr("bucket-id")), FALSE)
                /\ buckets' = IF name.str \in buckets
                              THEN (buckets \ {name.str})
                                   \cup ({new_name.str} \cap BucketNames)
                              ELSE buckets
                /\ probe' = "none"
                /\ gone' = FALSE
                /\ UNCHANGED assets
    /\ UNCHANGED pbVars

\* lines 308-311: the name check, the probe, the branch on it
RemoveBucketProbe(name) ==
    /\ pc = "idle"
    /\ IF ~IsString(name)
       THEN Reject(Op("remove_bucket", [name |-> name]), "ValueError")
       ELSE Probed(Op("remove_bucket", [name |-> name]),
                   RemoteCall("stubBucket", "exists_bucket", [name |-> name]),
                   name.str \in buckets)
    /\ UNCHANGED pbVars

\* line 312: the removal, once the probe answered true
RemoveBucketRest ==
    /\ pc = "probed"
    /\ op.name = "remove_bucket"
    /\ Finish(op,
              Append(calls, RemoteCall("stubBucket", "remove_bucket",
                                       [name |-> op.args.name])),
              NoKwargs, Return(PyStr("removed")), op.args.name.str \notin buckets)
    /\ buckets' = buckets \ {op.args.name.str}
    /\ UNCHANGED <<assets, probe, gone>>
    /\ UNCHANGED pbVars

----------------------------------------------------------------------------
(* Other clients of the same server *)

\* the entity the running operation asked the probe about
ProbedAsset == IF op.name = "update_asset" THEN op.args.uuid.str
               ELSE IF op.name = "remove_asset" THEN op.args.id.str ELSE ""
ProbedBucket == IF op.name = "remove_bucket" THEN op.args.name.str ELSE ""

OtherClientRemovesAsset(id) ==
    /\ id \in assets
    /\ assets' = assets \ {id}
    /\ gone' = (gone \/ (pc = "probed" /\ ProbedAsset = id))
    /\ UNCHANGED <<buckets, pc, op, probe, calls, built, result, stale>>
    /\ UNCHANGED pbVars

OtherClientRemovesBucket(name) ==
    /\ name \in buckets
    /\ buckets' = buckets \ {name}
    /\ gone' = (gone \/ (pc = "probed" /\ ProbedBucket = name))
    /\ UNCHANGED <<assets, pc, op, probe, calls, built, result, stale>>
    /\ UNCHANGED pbVars

----------------------------------------------------------------------------
(* The schema module: the import at module level, and Client.__init__ *)

\* lines 13-16, with the environment unset
HOST_NAME == "localhost"
HOST_PORT == "5000"
HTTP_PROTO_PORT == "8001"
PROTO_PATH == "/static/proto/opac.proto"

HostArgs == {HOST_NAME, "ssm.example.org"}
PortArgs == {HOST_PORT, "5001"}
HttpPortArgs == {HTTP_PROTO_PORT, "9000"}
ProtoPathArgs == {PROTO_PATH, "/alt/opac.proto"}

\* the address utils.generate_pb_files fetches the protocol definition from
ProtoUrl(host, http_port, proto_path) ==
    "http://" \o host \o ":" \o http_port \o proto_path

Event(ev, what) == [ev |-> ev, what |-> what]

\* the newest MaxLog entries of a log
Newest(log) == IF Len(log) > MaxLog THEN Tail(log) ELSE log

\* utils.generate_pb_files: fetch the definition, then write and compile it;
\* a fetch that fails raises and leaves the disk as it was
GeneratePbFiles(host, http_port, proto_path, fetched) ==
    /\ httpLog' = Newest(Append(httpLog, ProtoUrl(host, http_port, proto_path)))
    /\ diskVersion' = IF fetched THEN diskVersion + 1 ELSE diskVersion
    /\ onDisk' = (onDisk \/ fetched)

\* lines 18-23: import opac_pb2, generating it first when it is missing
ImportModule(fetched) ==
    /\ imported = "no"
    /\ IF onDisk
       THEN /\ imported' = "yes"
            /\ opac_pb2' = diskVersion
            /\ UNCHANGED <<onDisk, diskVersion, httpLog>>
       ELSE /\ GeneratePbFiles(HOST_NAME, HTTP_PROTO_PORT, PROTO_PATH, fetched)
            /\ imported' = IF fetched THEN "yes" ELSE "failed"
            /\ opac_pb2' = IF fetched THEN diskVersion + 1 ELSE 0
    /\ UNCHANGED ctor
    /\ UNCHANGED opVars

\* line 38: whether __init__ regenerates and reloads the schema
\* (variant: a refresh on every construction)
RefreshesMutant(update_pb_class) == TRUE
Refreshes(update_pb_class) == update_pb_class

\* lines 28-44: Client.__init__
Construct(host, port, proto_http_port, proto_path, update_pb_class, fetched) ==
    /\ imported = "yes"
    /\ LET a == [host |-> host, port |-> port, proto_http_port |-> proto_http_port,
                 proto_path |-> proto_path, update_pb_class |-> update_pb_class]
           fetch == Event("fetch", ProtoUrl(HOST_NAME, HTTP_PROTO_PORT, PROTO_PATH))
           channel == Event("channel", host \o ":" \o port)
       IN  IF Refreshes(update_pb_class)
           THEN /\ diskVersion < MaxCompiles
                /\ GeneratePbFiles(HOST_NAME, HTTP_PROTO_PORT, PROTO_PATH, fetched)
                /\ IF fetched
                   THEN /\ opac_pb2' = diskVersion + 1
                        /\ ctor' = [args |-> a, raised |-> FALSE,
                                    trace |-> <<fetch, Event("reload", "opac_pb2"),
                                                channel>>]
                   ELSE /\ opac_pb2' = opac_pb2
                        /\ ctor' = [args |-> a, raised |-> TRUE, trace |-> <<fetch>>]
           ELSE /\ fetched
                /\ ctor' = [args |-> a, raised |-> FALSE, trace |-> <<channel>>]
                /\ UNCHANGED <<onDisk, diskVersion, opac_pb2, httpLog>>
    /\ UNCHANGED imported
    /\ UNCHANGED opVars

----------------------------------------------------------------------------
(* Specifications *)

NoCtor == [args |-> [host |-> "", port |-> "", proto_http_port |-> "",
                     proto_path |-> "", update_pb_class |-> FALSE],
           raised |-> FALSE, trace |-> << >>]

\* Client(): a client built with the defaults from a schema already on disk
DefaultCtor == [args |-> [host |-> HOST_NAME, port |-> HOST_PORT,
                          proto_http_port |-> HTTP_PROTO_PORT,
                          proto_path |-> PROTO_PATH, update_pb_class |-> FALSE],
                raised |-> FALSE,
                trace |-> <<Event("channel", HOST_NAME \o ":" \o HOST_PORT)>>]

InitOp ==
    /\ pc = "idle"
    /\ op = NoOp
    /\ probe = "none"
    /\ calls = << >>
    /\ built = NoKwargs
    /\ result = Return(PyNone)
    /\ stale = FALSE
    /\ gone = FALSE

\* a constructed client in front of a server in any state
Init ==
    /\ assets \in SUBSET AssetIds
    /\ buckets \in SUBSET BucketNames
    /\ InitOp
    /\ onDisk = TRUE
    /\ diskVersion = 1
    /\ opac_pb2 = 1
    /\ imported = "yes"
    /\ httpLog = << >>
    /\ ctor = DefaultCtor

Next ==
    \/ \E pfile \in PfileArgs, filename \in FilenameArgs, metadata \in MetadataArgs,
          filetype \in {PyStr(""), PyStr("pdf")}, given \in BOOLEAN :
          AddAsset(pfile, filename, filetype, metadata, given, PyStr("photos"))
    \/ \E id \in IdArgs : GetAsset(id)
    \/ \E id \in IdArgs : GetAssetInfo(id)
    \/ \E id \in IdArgs : GetTaskState(id)
    \/ \E uuid \in IdArgs, pfile \in PfileArgs \cup {PyNone},
          filename \in FilenameArgs, filetype \in FiletypeArgs,
          metadata \in MetadataArgs, bucket_name \in BucketArgs :
          UpdateAssetProbe(uuid, pfile, filename, filetype, metadata, bucket_name)
    \/ UpdateAssetRest
    \/ \E id \in IdArgs : RemoveAssetProbe(id)
    \/ RemoveAssetRest
    \/ \E name \in NameArgs : AddBucket(name)
    \/ \E name \in NameArgs, new_name \in NameArgs : UpdateBucket(name, new_name)
    \/ \E name \in NameArgs : RemoveBucketProbe(name)
    \/ RemoveBucketRest
    \/ \E id \in AssetIds : OtherClientRemovesAsset(id)
    \/ \E name \in BucketNames : OtherClientRemovesBucket(name)

Spec == Init /\ [][Next]_vars

\* the process from the import of the module on, with the disk in either state
InitSchema ==
    /\ assets = {}
    /\ buckets = {}
    /\ InitOp
    /\ onDisk \in BOOLEAN
    /\ diskVersion = IF onDisk THEN 1 ELSE 0
    /\ opac_pb2 = 0
    /\ imported = "no"
    /\ httpLog = << >>
    /\ ctor = NoCtor

NextSchema ==
    \/ \E fetched \in BOOLEAN : ImportModule(fetched)
    \/ \E host \in HostArgs, port \in PortArgs, proto_http_port \in HttpPortArgs,
          proto_path \in ProtoPathArgs, update_pb_class \in BOOLEAN,
          fetched \in BOOLEAN :
          Construct(host, port, proto_http_port, proto_path, update_pb_class, fetched)

SpecSchema == InitSchema /\ [][NextSchema]_vars

----------------------------------------------------------------------------
(* Vocabulary of the properties *)

GuardedOps == {"update_asset", "remove_asset", "remove_bucket"}
MutatingMethods == {"update_asset", "remove_asset", "remove_bucket"}
ProbeMethods == {"exists_asset", "exists_bucket"}

\* the operation called last has ended
Ended == pc = "idle" /\ op.name # "none"

\* some id, uuid, name or new_name argument of the operation is not a string
IdArgNotString ==
    CASE op.name \in {"get_asset", "get_asset_info", "get_task_state", "remove_asset"}
           -> ~IsString(op.args.id)
      [] op.name = "update_asset" -> ~IsString(op.args.uuid)
      [] op.name \in {"add_bucket", "remove_bucket"} -> ~IsString(op.args.name)
      [] op.name = "update_bucket"
           -> ~IsString(op.args.name) \/ ~IsString(op.args.new_name)
      [] OTHER -> FALSE

\* the entity a message names: the id of a TaskId, the name of a BucketName,
\* the uuid of an Asset
Names(msg) ==
    IF "id" \in DOMAIN msg THEN msg.id
    ELSE IF "name" \in DOMAIN msg THEN msg.name
    ELSE IF "uuid" \in DOMAIN msg THEN msg.uuid
    ELSE PyNone

\* the operation was given a stream and no filename
StreamWithoutFilename ==
    /\ op.name \in {"add_asset", "update_asset"}
    /\ HasRead(op.args.pfile)
    /\ ~Truthy(op.args.filename)

IssuedMethods == {calls[i].method : i \in 1..Len(calls)}

----------------------------------------------------------------------------
(* C1: add_asset and update_asset end with ValueError, and without having   *)
(* issued any remote call, for every metadata value that is neither a      *)
(* mapping nor absent (None, or the '' that add_asset takes as default),   *)
(* the empty list included.                                                *)
C1_NonMappingMetadataRejectedBeforeAnyCall ==
    (/\ Ended
     /\ op.name \in {"add_asset", "update_asset"}
     /\ op.args.metadata \notin {PyNone, PyStr("")}
     /\ ~IsDict(op.args.metadata))
    => (result = Raise("ValueError") /\ calls = << >>)

(* C2: an operation given a non-string id, uuid, name or new_name ends     *)
(* with ValueError in its first step and has issued no remote call.        *)
C2_NonStringIdRejectedBeforeAnyCall ==
    IdArgNotString =>
        (pc = "idle" /\ result = Raise("ValueError") /\ calls = << >>)

C2_Witness ==
    /\ op.name = "update_bucket"
    /\ IsString(op.args.name)
    /\ ~IsString(op.args.new_name)
    /\ result = Raise("ValueError")

(* C3: when the probe of update_asset, remove_asset or remove_bucket       *)
(* answers false, the operation ends having issued the probe alone, it     *)
(* returns None without raising, and its step leaves the server's assets   *)
(* and buckets as they were.                                               *)
C3_ProbeFalseIsSilentNoOp ==
    /\ [](op.name \in GuardedOps /\ probe = "false"
            => /\ pc = "idle"
               /\ result = Return(PyNone)
               /\ Len(calls) = 1
               /\ IssuedMethods \cap MutatingMethods = {})
    /\ [][(/\ <<op, calls, result, probe>>' # <<op, calls, result, probe>>
           /\ op'.name \in GuardedOps
           /\ probe' = "false")
            => (assets' = assets /\ buckets' = buckets)]_vars

C3_Witness ==
    /\ Ended
    /\ op.name = "update_asset"
    /\ probe = "false"
    /\ Truthy(op.args.metadata)
    /\ op.args.pfile # PyNone

(* C4: add_asset and update_asset given a stream and no filename end with  *)
(* ValueError and never issue the add_asset / update_asset remote call.    *)
C4_StreamWithoutFilenameIsValueError ==
    (Ended /\ StreamWithoutFilename)
    => (/\ result = Raise("ValueError")
        /\ IssuedMethods \cap {"add_asset", "update_asset"} = {})

(* C5: a construction with update_pb_class false, the module being loaded, *)
(* fetches nothing, compiles and reloads nothing and leaves the loaded     *)
(* module as it was, whatever constructions came before.                   *)
C5_UnforcedConstructionKeepsSchema ==
    /\ [](ctor # NoCtor /\ ~ctor.args.update_pb_class
            => /\ ~ctor.raised
               /\ \A i \in 1..Len(ctor.trace) : ctor.trace[i].ev = "channel")
    /\ [][(ctor' # ctor /\ ~ctor'.args.update_pb_class)
            => UNCHANGED <<opac_pb2, httpLog, diskVersion, onDisk>>]_vars

C5_Witness ==
    /\ ctor # NoCtor
    /\ ~ctor.args.update_pb_class
    /\ ctor.args.host # HOST_NAME
    /\ opac_pb2 > 1
    /\ httpLog # << >>

(* C6: a construction with update_pb_class true fetches the schema from    *)
(* http://{host}:{proto_http_port}{proto_path} of its own arguments, and   *)
(* does so before it creates the channel.                                  *)
C6_ForcedFetchUsesArguments ==
    (ctor # NoCtor /\ ctor.args.update_pb_class)
    => /\ ctor.trace # << >>
       /\ ctor.trace[1] = Event("fetch", ProtoUrl(ctor.args.host,
                                                  ctor.args.proto_http_port,
                                                  ctor.args.proto_path))
       /\ \A i \in 2..Len(ctor.trace) : ctor.trace[i].ev # "fetch"

(* C7 as stated: add_asset called without a bucket name sends the bucket   *)
(* "UNKNOWN".                                                              *)
C7_DefaultBucketIsUNKNOWN ==
    (Ended /\ op.name = "add_asset" /\ "bucket_name" \in op.defaulted
       /\ calls # << >>)
    => calls[1].msg.bucket = PyStr("UNKNOWN")

(* C7 as amended: add_asset called without a bucket name sends the bucket  *)
(* "UNKNOW" in the Asset message of AssetService.add_asset.                *)
C7_DefaultBucketIsUNKNOW ==
    (Ended /\ op.name = "add_asset" /\ "bucket_name" \in op.defaulted
       /\ result.kind = "return")
    => /\ Len(calls) = 1
       /\ calls[1].stub = "stubAsset"
       /\ calls[1].method = "add_asset"
       /\ calls[1].msg.bucket = PyStr("UNKNOW")

C7_Witness ==
    /\ Ended
    /\ op.name = "add_asset"
    /\ "bucket_name" \in op.defaulted
    /\ Len(calls) = 1
    /\ calls[1].method = "add_asset"

(* C8: a mutating call reaches the server for an entity it no longer holds *)
(* only through the race: the probe of the same operation answered true    *)
(* and another client removed the entity between the probe and the call.   *)
(* The witness is the race itself.                                         *)
C8_StaleMutationOnlyByRace ==
    stale => (/\ op.name \in GuardedOps
              /\ probe = "true"
              /\ gone
              /\ Len(calls) = 2
              /\ calls[2].method \in MutatingMethods)

C8_Witness ==
    /\ op.name = "remove_asset"
    /\ probe = "true"
    /\ Len(calls) = 2
    /\ calls[2].method = "remove_asset"
    /\ stale

(* C9: every mutating call of update_asset, remove_asset and remove_bucket *)
(* comes right after a probe of the same operation that answered true, and *)
(* its message names the id or name the probe was asked about.             *)
C9_MutationFollowsProbeOfSameEntity ==
    \A i \in 1..Len(calls) :
        (op.name \in GuardedOps /\ calls[i].method \in MutatingMethods)
        => /\ i = 2
           /\ calls[1].method \in ProbeMethods
           /\ probe = "true"
           /\ Names(calls[i].msg) = Names(calls[1].msg)

(* C10: the metadata of every Asset message add_asset and update_asset     *)
(* make is the JSON text of the caller's mapping, or of the empty mapping  *)
(* when the caller passed none.                                            *)
C10_MetadataIsJsonText ==
    (op.name \in {"add_asset", "update_asset"} /\ built # NoKwargs)
    => built.metadata =
         PyStr(JsonDumps(IF Truthy(op.args.metadata) THEN op.args.metadata
                         ELSE PyDict(<< >>)))
====
